---- MODULE Spec2Model ----
(***************************************************************************)
(* Model of the heart-disease decision-support backend:                    *)
(*   - the CSV examination store of backend/database.py (create, set       *)
(*     diagnosis, mark trained, stats) behind the handlers of              *)
(*     backend/main.py,                                                    *)
(*   - the model registry of backend/model_loader.py,                      *)
(*   - the prediction selector of backend/main.py (single-best and         *)
(*     compare-all),                                                       *)
(*   - the retraining job of backend/retrain_models.py,                    *)
(*   - the patient store of backend/database.py,                           *)
(*   - two processes calling the examination store's write functions at    *)
(*     the same time.                                                      *)
(*                                                                         *)
(* Probabilities are integers in units of 1e-5 (PROB_ONE is 1.0).          *)
(* An optional CSV cell is a sequence: <<>> is an empty cell (NaN after    *)
(* read_csv), <<v>> a cell holding v.                                      *)
(***************************************************************************)
EXTENDS Integers, Sequences, FiniteSets, TLC

VARIABLES
    space,        \* which examination file the store variables stand for
    patients,     \* rows of patients.csv (the id column)
    fileExists,   \* whether the examination CSV file exists on disk
    exams,        \* rows of the examination CSV file, in file order
    scalers,      \* ModelLoader.scalers : key -> artifact
    models,       \* ModelLoader.models  : key -> artifact or None
    is_loaded,    \* ModelLoader.is_loaded
    disk,         \* artifact files present in the models directory
    last,         \* the last examination request served and its response
    resp,         \* the response of the last prediction request
    got,          \* the last direct call on the model registry and what it returned
    job,          \* the retraining job: where it is, what it fetched, what it did
    writers       \* the two processes calling the store's write functions directly

vars == <<space, patients, fileExists, exams, scalers, models, is_loaded, disk, last, resp,
          got, job, writers>>

(***************************************************************************)
(* Bounds of the model.                                                    *)
(***************************************************************************)
MaxExams == 2      \* rows an examination file may grow to
MaxIds == 2        \* length of the id list given to mark-trained
MaxPresent == 2    \* classifier artifact files present in the models directory
MaxPatients == 4   \* rows the patients file may grow to

PROB_ONE == 100000 \* the probability 1.0

Spaces == {"lifestyle", "clinical"}
Days == {1}                          \* values of datetime.now() as a date
PatientIds == {"P1", "P2"}           \* patient_id values a request may carry
ExamIdArgs == 1..(MaxExams + 1)      \* examination ids a request may carry
Diagnoses == {1}                     \* diagnosis a request carries; the store copies it unread

None == <<>>
Some(v) == <<v>>

RECURSIVE SeqsUpTo(_, _)
\* the sequences over S of length at most n
SeqsUpTo(S, n) ==
    IF n = 0 THEN {<<>>}
    ELSE LET shorter == SeqsUpTo(S, n - 1)
         IN  shorter \cup {Append(s, x) : s \in {t \in shorter : Len(t) = n - 1},
                                          x \in S}

\* the id lists a mark-trained request may carry, written in non-decreasing order
\* (an id may repeat, and may be the id of no row)
IdLists == {s \in SeqsUpTo(ExamIdArgs, MaxIds) : \A k \in 1..(Len(s) - 1) : s[k] <= s[k + 1]}

(***************************************************************************)
(* database.py: the examination store.  Every operation reads the whole    *)
(* file into a frame, changes the frame and writes the whole file back.    *)
(***************************************************************************)

\* df[df['id'] == exam_id].index
IndexOfId(df, exam_id) == {i \in 1..Len(df) : df[i].id = exam_id}

RECURSIVE MaxId(_)
\* df['id'].max()
MaxId(df) ==
    IF Len(df) = 1 THEN df[1].id
    ELSE LET m == MaxId(Tail(df)) IN IF df[1].id > m THEN df[1].id ELSE m

NewIdWithoutIncrement(exists, df) ==
    IF exists /\ Len(df) > 0 THEN MaxId(df) ELSE 1

\* new_id = int(df['id'].max()) + 1 if not df.empty else 1; 1 on FileNotFoundError
NewId(exists, df) ==
    IF exists /\ Len(df) > 0 THEN MaxId(df) + 1 ELSE 1

NewRowDiagnosedByModel(exam_data, new_id) ==
    [id |-> new_id,
     patient_id |-> exam_data.patient_id,
     model_prediction |-> exam_data.model_prediction,
     model_confidence |-> exam_data.model_confidence,
     doctor_diagnosis |-> Some(exam_data.model_prediction),
     diagnosis_date |-> None,
     is_used_for_training |-> FALSE]

\* the row create_*_examination appends
NewRow(exam_data, new_id) ==
    [id |-> new_id,
     patient_id |-> exam_data.patient_id,
     model_prediction |-> exam_data.model_prediction,
     model_confidence |-> exam_data.model_confidence,
     doctor_diagnosis |-> None,
     diagnosis_date |-> None,
     is_used_for_training |-> FALSE]

\* create_lifestyle_examination / create_clinical_examination: the frame written
\* (an empty frame stands in for a missing file)
create_examination(exists, df, exam_data) ==
    LET old == IF exists THEN df ELSE <<>>
    IN  Append(old, NewRow(exam_data, NewId(exists, df)))

DiagnosedRowResetsTrained(row, diagnosis, today) ==
    [row EXCEPT !.doctor_diagnosis = Some(diagnosis),
                !.diagnosis_date = Some(today),
                !.is_used_for_training = FALSE]

\* df.loc[idx, 'doctor_diagnosis'] = diagnosis; df.loc[idx, 'diagnosis_date'] = now
DiagnosedRow(row, diagnosis, today) ==
    [row EXCEPT !.doctor_diagnosis = Some(diagnosis),
                !.diagnosis_date = Some(today)]

\* an update that refuses a record that already has a diagnosis
UpdateDiagnosisOnlyPending(exists, df, exam_id, diagnosis, today) ==
    IF exists /\ \E i \in IndexOfId(df, exam_id) : df[i].doctor_diagnosis = None
    THEN [found |-> TRUE,
          df |-> [i \in 1..Len(df) |->
                    IF i \in IndexOfId(df, exam_id)
                    THEN DiagnosedRow(df[i], diagnosis, today)
                    ELSE df[i]]]
    ELSE [found |-> FALSE, df |-> df]

\* update_lifestyle_diagnosis / update_clinical_diagnosis: found is False where the
\* function returns None (no such id, or FileNotFoundError), and nothing is written
update_diagnosis(exists, df, exam_id, diagnosis, today) ==
    IF exists /\ IndexOfId(df, exam_id) # {}
    THEN [found |-> TRUE,
          df |-> [i \in 1..Len(df) |->
                    IF i \in IndexOfId(df, exam_id)
                    THEN DiagnosedRow(df[i], diagnosis, today)
                    ELSE df[i]]]
    ELSE [found |-> FALSE, df |-> df]

\* df.loc[idx, 'is_used_for_training'] = True
TrainedFrame(df, idx) ==
    [i \in 1..Len(df) |->
        IF i \in idx THEN [df[i] EXCEPT !.is_used_for_training = TRUE] ELSE df[i]]

MarkLoopCountsNewlyFlagged(df, exam_ids, count) ==
    [df |-> TrainedFrame(df, UNION {IndexOfId(df, exam_ids[k]) : k \in 1..Len(exam_ids)}),
     count |-> count + Cardinality({i \in 1..Len(df) :
                    /\ ~df[i].is_used_for_training
                    /\ \E k \in 1..Len(exam_ids) : exam_ids[k] = df[i].id})]

MarkLoopCountsDistinct(df, exam_ids, count) ==
    [df |-> TrainedFrame(df, UNION {IndexOfId(df, exam_ids[k]) : k \in 1..Len(exam_ids)}),
     count |-> Cardinality({exam_ids[k] : k \in {j \in 1..Len(exam_ids) :
                                                  IndexOfId(df, exam_ids[j]) # {}}})]

RECURSIVE MarkLoop(_, _, _)
\* for exam_id in exam_ids: if the id has a row, flag it and count += 1
MarkLoop(df, exam_ids, count) ==
    IF exam_ids = <<>> THEN [df |-> df, count |-> count]
    ELSE LET idx == IndexOfId(df, Head(exam_ids))
         IN  IF idx # {}
             THEN MarkLoop(TrainedFrame(df, idx), Tail(exam_ids), count + 1)
             ELSE MarkLoop(df, Tail(exam_ids), count)

\* mark_lifestyle_as_trained / mark_clinical_as_trained: 0 on FileNotFoundError
mark_as_trained(exists, df, exam_ids) ==
    IF exists THEN MarkLoop(df, exam_ids, 0) ELSE [df |-> df, count |-> 0]

\* the masks of get_lifestyle_exam_stats; len(df[mask]) is Len(SelectSeq(df, mask))
IsPending(row) == row.doctor_diagnosis = None
IsReadyIgnoresFlag(row) == row.doctor_diagnosis # None
IsReady(row) == row.doctor_diagnosis # None /\ row.is_used_for_training = FALSE
IsTrained(row) == row.is_used_for_training = TRUE

\* get_lifestyle_exam_stats / get_clinical_exam_stats (zeros on FileNotFoundError)
get_exam_stats(exists, df) ==
    IF exists
    THEN [total_examinations |-> Len(df),
          pending_diagnosis |-> Len(SelectSeq(df, IsPending)),
          ready_for_training |-> Len(SelectSeq(df, IsReady)),
          already_trained |-> Len(SelectSeq(df, IsTrained))]
    ELSE [total_examinations |-> 0, pending_diagnosis |-> 0,
          ready_for_training |-> 0, already_trained |-> 0]

PatientCheckSkipped(patient_id) == TRUE

\* get_patient_by_id(patient_id) is not None
PatientExists(patient_id) == \E i \in 1..Len(patients) : patients[i] = patient_id

(***************************************************************************)
(* model_loader.py: the model registry.  An artifact file holds a fitted   *)
(* object, and what that object does is part of the file's content:        *)
(*   a classifier  [raises, probs]: predict_proba raises, or gives         *)
(*                 probs[x] as the positive-class probability of x;        *)
(*   a scaler      [accepts]: the feature spaces whose frames transform    *)
(*                 takes (it raises on every other frame).                 *)
(* disk[file] is None when the file is missing.                            *)
(***************************************************************************)
SCALER_FILE == "scaler.pkl"
NB_FILE == "single_naivebayes.pkl"

\* cardio_models of load_models: (key, file), in the dictionary's order
CardioModelFiles ==
    << <<"cardio_rf", "ensemble_randomforest.pkl">>,
       <<"cardio_gb", "ensemble_xgboost.pkl">>,
       <<"cardio_lr", "single_logisticregression.pkl">>,
       <<"cardio_stacking", "ensemble_stacking.pkl">>,
       <<"cardio_lightgbm", "ensemble_lightgbm.pkl">>,
       <<"cardio_baggingsvm", "ensemble_baggingsvm.pkl">>,
       <<"cardio_blending", "ensemble_blending.pkl">>,
       <<"cardio_hardvoting", "ensemble_hardvoting.pkl">>,
       <<"cardio_softvoting", "ensemble_softvoting.pkl">>,
       <<"cardio_nystroemsgd", "ensemble_nystroemsgd.pkl">>,
       <<"cardio_dt", "single_decisiontree.pkl">>,
       <<"cardio_knn", "single_knn.pkl">>,
       <<"cardio_mlp", "single_mlp.pkl">>,
       <<"cardio_sgd", "single_sgd.pkl">> >>

CardioKeys == {CardioModelFiles[i][1] : i \in 1..Len(CardioModelFiles)}
ClassifierFiles == {CardioModelFiles[i][2] : i \in 1..Len(CardioModelFiles)} \cup {NB_FILE}
ArtifactFiles == ClassifierFiles \cup {SCALER_FILE}
\* the files of the models directory only retrain_models.py names
HEART_SCALER_FILE == "heart_scaler.joblib"
HeartRetrainFiles ==
    {"heart_rf.joblib", "heart_gb.joblib", "heart_nb.joblib", "heart_stacking.joblib"}
ModelsDirFiles == ArtifactFiles \cup HeartRetrainFiles \cup {HEART_SCALER_FILE}
HeartKeys == {"heart_rf", "heart_gb", "heart_stacking", "heart_nb"}
ModelKeys == CardioKeys \cup HeartKeys \cup {"tabnet", "gcn"}
ScalerKeys == {"cardio", "heart"}

FileOfCardioKey(key) ==
    LET i == CHOOSE j \in 1..Len(CardioModelFiles) : CardioModelFiles[j][1] = key
    IN  CardioModelFiles[i][2]

\* StandardScaler(): the unfitted scaler made when scaler.pkl cannot be loaded
DummyScaler == [accepts |-> {}]
\* MockTabNet() and MockGCN(): their outputs are drawn at random on every call
MockTabNet == [mock |-> "MockTabNet"]
MockGCN == [mock |-> "MockGCN"]

\* joblib.load(path) inside try/except: the object, or nothing when the file is missing
JoblibLoad(files, file) == files[file]

\* ModelLoader.__new__: models = {}, scalers = {}, is_loaded = False
EmptyModels == [k \in ModelKeys |-> None]
EmptyScalers == [k \in ScalerKeys |-> None]

\* load_models, section 1 and line 93: the scalers mapping
LoadedScalers(files) ==
    LET loaded == JoblibLoad(files, SCALER_FILE)
        cardio == IF loaded # None THEN loaded ELSE Some(DummyScaler)
    IN  [k \in ScalerKeys |-> cardio]

\* load_models, sections 2-4: the models mapping (models.get(key) of a key never set is None)
LoadedModels(files) ==
    LET cardio == [k \in CardioKeys |-> JoblibLoad(files, FileOfCardioKey(k))]
    IN  [k \in ModelKeys |->
            IF k \in CardioKeys THEN cardio[k]
            ELSE IF k = "heart_rf" THEN cardio["cardio_rf"]
            ELSE IF k = "heart_gb" THEN cardio["cardio_gb"]
            ELSE IF k = "heart_stacking" THEN cardio["cardio_stacking"]
            ELSE IF k = "heart_nb" THEN JoblibLoad(files, NB_FILE)
            ELSE IF k = "tabnet" THEN Some(MockTabNet)
            ELSE Some(MockGCN)]

\* the registry as a value
Registry == [scalers |-> scalers, models |-> models, is_loaded |-> is_loaded]

LoadModelsAlways(reg, files) ==
    [scalers |-> LoadedScalers(files), models |-> LoadedModels(files), is_loaded |-> TRUE]

\* ModelLoader.load_models: a no-op once loaded
load_models(reg, files) ==
    IF reg.is_loaded THEN reg
    ELSE [scalers |-> LoadedScalers(files), models |-> LoadedModels(files), is_loaded |-> TRUE]

\* get_model / get_scaler first run load_models when the registry is not loaded
AfterGet(reg, files) == load_models(reg, files)
\* self.models.get(model_name) / self.scalers.get(scaler_name): None for a key never set
get_model(reg, model_name) ==
    IF model_name \in DOMAIN reg.models THEN reg.models[model_name] ELSE None
get_scaler(reg, scaler_name) ==
    IF scaler_name \in DOMAIN reg.scalers THEN reg.scalers[scaler_name] ELSE None

\* no direct call on the registry yet
\* got: the method called, the key it was given, what it returned, and whether the
\* registry was loaded and the files had changed since, when it was called
NoCall == [op |-> "none", key |-> "", value |-> None, stale |-> FALSE]
\* job: where the retraining job is (pc), its --force flag, the stats and the
\* training data it fetched, whether it asked for the training data, the model types
\* it fitted, the files it overwrote, what it logged last (outcome), the statement
\* of retrain_*_models that raised (error) and the model type being fitted then (failed)
NoJob == [pc |-> "idle", force |-> FALSE, stats |-> None, fetched |-> FALSE, data |-> None,
          fitted |-> {}, dumped |-> {}, outcome |-> "", error |-> "", failed |-> ""]

\* writers: for each of the two processes, where it is in the store function it
\* called (idle; read: past read_csv; done: returned), the function and its
\* arguments, whether the file existed and the frame read_csv returned, whether it
\* wrote the file, what it returned (the new id, 1 for a found id, or the count), and
\* whether the other process wrote the file after this one had read it (stale)
Writers == {1, 2}
NoWriter == [pc |-> "idle", op |-> "none", id |-> 0, ids |-> <<>>, diagnosis |-> None,
             today |-> None, exists |-> FALSE, df |-> <<>>, wrote |-> FALSE, ret |-> 0,
             stale |-> FALSE]
NoWriters == [w \in Writers |-> NoWriter]

SetRegistry(reg) ==
    /\ scalers' = reg.scalers
    /\ models' = reg.models
    /\ is_loaded' = reg.is_loaded

\* startup_event of main.py
startup_event ==
    /\ ~is_loaded
    /\ SetRegistry(load_models(Registry, disk))
    /\ UNCHANGED <<space, patients, fileExists, exams, disk, last, resp, got, job, writers>>

(***************************************************************************)
(* Inference.                                                              *)
(***************************************************************************)
Features == {"x1", "x2"}          \* the feature vectors a request may carry

\* a transform that returns whatever it is given
TransformNeverRaises(scaler, sp) == TRUE

\* scaler.transform(df) returns: not on a frame of a feature space it was not fitted on,
\* never for the unfitted dummy scaler, and not when get_scaler returned None
TransformSucceeds(scaler, sp) == scaler # None /\ sp \in scaler[1].accepts

\* model.predict_proba(X_scaled) raises
PredictProbaRaises(model) == model = None \/ model[1].raises

\* float(model.predict_proba(X_scaled)[i, 1]) for the row x
predict_proba(model, x) == model[1].probs[x]

ConfidenceIsProb(prob) == prob

\* confidence = prob if prob > 0.5 else 1 - prob
Confidence(prob) == IF 2 * prob > PROB_ONE THEN prob ELSE PROB_ONE - prob

\* prediction = 1 if prob > 0.5 else 0
Prediction(prob) == IF 2 * prob > PROB_ONE THEN 1 ELSE 0

\* round(float(confidence), 4), on values in units of 1e-5 (ties to even)
Round4(c) ==
    LET q == c \div 10
        r == c % 10
    IN  IF r < 5 THEN 10 * q
        ELSE IF r > 5 THEN 10 * (q + 1)
        ELSE IF q % 2 = 0 THEN 10 * q ELSE 10 * (q + 1)

(***************************************************************************)
(* main.py: the examination handlers.                                      *)
(***************************************************************************)
ScalerKeyOf(sp) == IF sp = "lifestyle" THEN "cardio" ELSE "heart"
PrimaryKeyOf(sp) == IF sp = "lifestyle" THEN "cardio_stacking" ELSE "heart_stacking"

\* last: the operation served last, its HTTP status, the examination id it carried
\* or assigned, the id list it carried, the count it returned, whether the request
\* before it was the same mark-trained request, the patient_id and the feature
\* vector it carried, and the diagnosis it carried with the date it was served on
NoRequest ==
    [op |-> "none", status |-> 0, id |-> 0, ids |-> <<>>, ret |-> 0, repeat |-> FALSE,
     patient_id |-> "", x |-> "", diagnosis |-> None, today |-> None]
Response(op, status, id, ids, ret) ==
    [op |-> op, status |-> status, id |-> id, ids |-> ids, ret |-> ret, repeat |-> FALSE,
     patient_id |-> "", x |-> "", diagnosis |-> None, today |-> None]

\* create_lifestyle_exam / create_clinical_exam, for the feature vector x
create_exam(patient_id, x) ==
    IF ~PatientExists(patient_id)
    THEN /\ last' = [Response("create", 404, 0, <<>>, 0)
                        EXCEPT !.patient_id = patient_id, !.x = x]
         /\ UNCHANGED <<space, patients, fileExists, exams, scalers, models, is_loaded, disk,
                     resp, got, job, writers>>
    ELSE LET reg == AfterGet(Registry, disk)
             scaler == get_scaler(reg, ScalerKeyOf(space))
             stacking == get_model(reg, PrimaryKeyOf(space))
             raised == \/ ~TransformSucceeds(scaler, space)
                       \/ PredictProbaRaises(stacking)
         IN  /\ SetRegistry(reg)
             /\ IF raised
                THEN /\ last' = [Response("create", 500, 0, <<>>, 0)
                                    EXCEPT !.patient_id = patient_id, !.x = x]
                     /\ UNCHANGED <<fileExists, exams>>
                ELSE LET prob == predict_proba(stacking, x)
                         exam_dict == [patient_id |-> patient_id,
                                       model_prediction |-> Prediction(prob),
                                       model_confidence |-> Round4(Confidence(prob))]
                         new_df == create_examination(fileExists, exams, exam_dict)
                     IN  /\ Len(exams) < MaxExams
                         /\ exams' = new_df
                         /\ fileExists' = TRUE
                         /\ last' = [Response("create", 200, new_df[Len(new_df)].id, <<>>, 0)
                                        EXCEPT !.patient_id = patient_id, !.x = x]
             /\ UNCHANGED <<space, patients, disk, resp, got, job, writers>>

\* update_lifestyle_exam_diagnosis / update_clinical_exam_diagnosis
update_exam_diagnosis(exam_id, diagnosis, today) ==
    /\ LET result == update_diagnosis(fileExists, exams, exam_id, diagnosis, today)
           request == [Response("diagnose", 0, exam_id, <<>>, 0)
                          EXCEPT !.diagnosis = Some(diagnosis), !.today = Some(today)]
       IN  IF result.found
           THEN /\ exams' = result.df
                /\ last' = [request EXCEPT !.status = 200]
           ELSE /\ last' = [request EXCEPT !.status = 404]
                /\ UNCHANGED exams
    /\ UNCHANGED <<space, patients, fileExists, scalers, models, is_loaded, disk,
                     resp, got, job, writers>>

\* mark_lifestyle_trained / mark_clinical_trained
mark_trained(exam_ids) ==
    LET r == mark_as_trained(fileExists, exams, exam_ids)
    IN  /\ exams' = r.df
        /\ last' = [Response("mark", 200, 0, exam_ids, r.count)
                        EXCEPT !.repeat = (last.op = "mark" /\ last.ids = exam_ids)]
        /\ UNCHANGED <<space, patients, fileExists, scalers, models, is_loaded, disk,
                     resp, got, job, writers>>

\* what GET /examinations/<space>/stats answers in the current state
Stats == get_exam_stats(fileExists, exams)

\* get_lifestyle_training_stats / get_clinical_training_stats: reads only
get_training_stats ==
    /\ last' = Response("stats", 200, 0, <<>>, 0)
    /\ UNCHANGED <<space, patients, fileExists, exams, scalers, models, is_loaded, disk,
                     resp, got, job, writers>>

\* export_*_training_data: the rows with a diagnosis
TrainingRows(exists, df) ==
    IF exists THEN SelectSeq(df, LAMBDA row : row.doctor_diagnosis # None) ELSE <<>>

\* export_lifestyle_data / export_clinical_data: reads only
export_data ==
    /\ last' = Response("export", 200, 0, <<>>, 0)
    /\ UNCHANGED <<space, patients, fileExists, exams, scalers, models, is_loaded, disk,
                     resp, got, job, writers>>

\* resp: the prediction endpoint served last (op), its HTTP status, the feature space
\* and the batch of the request, what MockTabNet drew for it, and the body of the
\* answer: model_predictions and results of a single-best request; all_models,
\* best_model and consensus of a compare request
NoConsensus == [high_risk_count |-> 0, low_risk_count |-> 0, total_models |-> 0]
NoResponse == [op |-> "none", status |-> 0, space |-> "", X |-> <<>>, tabnet |-> <<>>,
               preds |-> <<>>, results |-> <<>>,
               all_models |-> <<>>, best_model |-> None, consensus |-> NoConsensus]

\* a classifier file and a scaler file as the training scripts leave them
Classifier(probs) == Some([raises |-> FALSE, probs |-> probs])
BrokenClassifier == Some([raises |-> TRUE, probs |-> [x \in Features |-> 0]])
Scaler(accepted) == Some([accepts |-> accepted])

\* the models directory with every file the registry reads present; the stacking
\* ensemble puts x1 on the decision boundary and x2 above it
FullDisk ==
    [f \in ModelsDirFiles |->
        IF f \notin ArtifactFiles THEN None
        ELSE IF f = SCALER_FILE THEN Scaler(Spaces)
        ELSE IF f = "ensemble_stacking.pkl"
             THEN Classifier([x \in Features |-> IF x = "x1" THEN 50000 ELSE 80004])
        ELSE Classifier([x \in Features |-> 20000])]

\* the deployments the examination specification starts from
ExamDeployments ==
    {FullDisk,
     [FullDisk EXCEPT !["ensemble_stacking.pkl"] = None],
     [FullDisk EXCEPT !["ensemble_stacking.pkl"] = BrokenClassifier],
     [FullDisk EXCEPT ![SCALER_FILE] = None]}

Init ==
    /\ space \in Spaces
    /\ patients = <<"P1">>
    /\ fileExists \in BOOLEAN
    /\ exams = <<>>
    /\ scalers = EmptyScalers
    /\ models = EmptyModels
    /\ is_loaded = FALSE
    /\ disk \in ExamDeployments
    /\ last = NoRequest
    /\ resp = NoResponse
    /\ got = NoCall
    /\ job = NoJob
    /\ writers = NoWriters

CreateExam == \E p \in PatientIds, x \in Features : create_exam(p, x)
UpdateExamDiagnosis == \E e \in ExamIdArgs, d \in Diagnoses, today \in Days :
    update_exam_diagnosis(e, d, today)
MarkTrained == \E ids \in IdLists : mark_trained(ids)

Next ==
    \/ startup_event
    \/ CreateExam
    \/ UpdateExamDiagnosis
    \/ MarkTrained
    \/ get_training_stats
    \/ export_data

Spec == Init /\ [][Next]_vars

(***************************************************************************)
(* main.py: single-best prediction (predict_lifestyle, predict_clinical).  *)
(***************************************************************************)
\* cardio_models of predict_lifestyle: (model_key, model_name), in list order
CardioCandidates ==
    << <<"cardio_stacking", "Stacking Ensemble">>,
       <<"cardio_rf", "Random Forest">>,
       <<"cardio_gb", "Gradient Boosting">>,
       <<"cardio_lr", "Logistic Regression">>,
       <<"cardio_lightgbm", "LightGBM">>,
       <<"cardio_baggingsvm", "Bagging SVM">>,
       <<"cardio_blending", "Blending">>,
       <<"cardio_hardvoting", "Hard Voting">>,
       <<"cardio_softvoting", "Soft Voting">>,
       <<"cardio_nystroemsgd", "Nystroem SGD">>,
       <<"cardio_dt", "Decision Tree">>,
       <<"cardio_knn", "K-Nearest Neighbors">>,
       <<"cardio_mlp", "Multi-Layer Perceptron">>,
       <<"cardio_sgd", "SGD Classifier">> >>

\* heart_models of predict_clinical: (model_key, model_name), in list order
HeartCandidates ==
    << <<"heart_stacking", "Stacking Ensemble">>,
       <<"heart_rf", "Random Forest">>,
       <<"heart_gb", "Gradient Boosting">>,
       <<"heart_nb", "Naive Bayes">> >>

CandidatesOf(sp) == IF sp = "lifestyle" THEN CardioCandidates ELSE HeartCandidates

\* model_predictions[model_name] = probs on an insertion-ordered dict
DictSet(preds, name, probs) ==
    IF \E k \in 1..Len(preds) : preds[k].name = name
    THEN [k \in 1..Len(preds) |->
            IF preds[k].name = name THEN [name |-> name, probs |-> probs] ELSE preds[k]]
    ELSE Append(preds, [name |-> name, probs |-> probs])

RECURSIVE RunModelsKeepsFailed(_, _, _, _)
RunModelsKeepsFailed(reg, candidates, X, preds) ==
    IF candidates = <<>> THEN preds
    ELSE LET model == get_model(reg, Head(candidates)[1])
             probs == [i \in 1..Len(X) |-> predict_proba(model, X[i])]
         IN  IF model # None
             THEN RunModelsKeepsFailed(reg, Tail(candidates), X,
                                       DictSet(preds, Head(candidates)[2], probs))
             ELSE RunModelsKeepsFailed(reg, Tail(candidates), X, preds)

RECURSIVE RunModelsStopsAtFailure(_, _, _, _)
RunModelsStopsAtFailure(reg, candidates, X, preds) ==
    IF candidates = <<>> THEN preds
    ELSE LET model == get_model(reg, Head(candidates)[1])
             probs == [i \in 1..Len(X) |-> predict_proba(model, X[i])]
         IN  IF model = None THEN RunModelsStopsAtFailure(reg, Tail(candidates), X, preds)
             ELSE IF PredictProbaRaises(model) THEN preds
             ELSE RunModelsStopsAtFailure(reg, Tail(candidates), X,
                                          DictSet(preds, Head(candidates)[2], probs))

RECURSIVE RunModels(_, _, _, _)
\* for model_key, model_name in candidates: run the model if the registry has it, and
\* keep its probabilities unless predict_proba raises
RunModels(reg, candidates, X, preds) ==
    IF candidates = <<>> THEN preds
    ELSE LET model == get_model(reg, Head(candidates)[1])
             probs == [i \in 1..Len(X) |-> predict_proba(model, X[i])]
         IN  IF model # None /\ ~PredictProbaRaises(model)
             THEN RunModels(reg, Tail(candidates), X,
                            DictSet(preds, Head(candidates)[2], probs))
             ELSE RunModels(reg, Tail(candidates), X, preds)

NoBestZeroProb == [best_model |-> Some("None"), best_prob |-> Some(0), best_confidence |-> 0]

\* best_model = None; best_prob = None; best_confidence = 0
NoBest == [best_model |-> None, best_prob |-> None, best_confidence |-> 0]

RECURSIVE SelectBestLastWins(_, _, _)
SelectBestLastWins(preds, i, best) ==
    IF preds = <<>> THEN best
    ELSE LET prob == Head(preds).probs[i]
             confidence == Confidence(prob)
         IN  IF confidence >= best.best_confidence
             THEN SelectBestLastWins(Tail(preds), i,
                     [best_model |-> Some(Head(preds).name), best_prob |-> Some(prob),
                      best_confidence |-> confidence])
             ELSE SelectBestLastWins(Tail(preds), i, best)

RECURSIVE SelectBest(_, _, _)
\* for model_name, probs in model_predictions.items(): keep the entry whose
\* confidence is strictly above the best so far
SelectBest(preds, i, best) ==
    IF preds = <<>> THEN best
    ELSE LET prob == Head(preds).probs[i]
             confidence == Confidence(prob)
         IN  IF confidence > best.best_confidence
             THEN SelectBest(Tail(preds), i,
                     [best_model |-> Some(Head(preds).name), best_prob |-> Some(prob),
                      best_confidence |-> confidence])
             ELSE SelectBest(Tail(preds), i, best)

PredictionResponseHighAtHalf(best, considered) ==
    [risk_score |-> best.best_prob[1],
     risk_level |-> IF 2 * best.best_prob[1] >= PROB_ONE THEN "High" ELSE "Low",
     best_model |-> best.best_model[1],
     considered |-> considered,
     confidence |-> best.best_confidence]

\* PredictionResponse(risk_score, risk_level, model_used, confidence); model_used is
\* "<best_model> (Best of <considered> models)"
PredictionResponse(best, considered) ==
    [risk_score |-> best.best_prob[1],
     risk_level |-> IF 2 * best.best_prob[1] > PROB_ONE THEN "High" ELSE "Low",
     best_model |-> best.best_model[1],
     considered |-> considered,
     confidence |-> best.best_confidence]

\* the body of predict_lifestyle / predict_clinical for the batch X; tabnet is what
\* MockTabNet draws for the rows of X.  An empty batch makes an empty frame, which
\* transform refuses; best_prob = None makes `best_prob > 0.5` raise.
SingleBest(reg, sp, X, tabnet) ==
    LET scaler == get_scaler(reg, ScalerKeyOf(sp))
        ran == RunModels(reg, CandidatesOf(sp), X, <<>>)
        preds == IF sp = "lifestyle" /\ get_model(reg, "tabnet") # None
                 THEN DictSet(ran, "TabNet", tabnet)
                 ELSE ran
        best == [i \in 1..Len(X) |-> SelectBest(preds, i, NoBest)]
    IN  IF X = <<>> \/ ~TransformSucceeds(scaler, sp)
        THEN [NoResponse EXCEPT !.op = "predict", !.status = 500, !.space = sp, !.X = X]
        ELSE IF \E i \in 1..Len(X) : best[i].best_prob = None
        THEN [NoResponse EXCEPT !.op = "predict", !.status = 500, !.space = sp, !.X = X]
        ELSE [NoResponse EXCEPT
                !.op = "predict", !.status = 200, !.space = sp, !.X = X, !.tabnet = tabnet,
                !.preds = preds,
                !.results = [i \in 1..Len(X) |-> PredictionResponse(best[i], Len(preds))]]

predict(sp, X, tabnet) ==
    LET reg == AfterGet(Registry, disk)
    IN  /\ SetRegistry(reg)
        /\ resp' = SingleBest(reg, sp, X, tabnet)
        /\ UNCHANGED <<space, patients, fileExists, exams, disk, last, got, job, writers>>

\* the batches a prediction request may carry: at most two feature vectors
Batches == {<<>>} \cup {<<x>> : x \in Features} \cup {<<x, y>> : x, y \in Features}
\* values MockTabNet may draw: uniform(0.3, 0.7) pairs, normalised
TabNetProbValues == {40000, 50000}
TabNetDraws(X) == [1..Len(X) -> TabNetProbValues]

predict_lifestyle == \E X \in Batches : \E tabnet \in TabNetDraws(X) :
    predict("lifestyle", X, tabnet)
predict_clinical == \E X \in Batches : predict("clinical", X, <<>>)

(***************************************************************************)
(* main.py: compare-all prediction (predict_lifestyle_compare,             *)
(* predict_clinical_compare).  The static accuracy and type of a candidate *)
(* are copied to its record unread and are left out.                       *)
(***************************************************************************)
\* cardio_models_to_test: (model_key, model_name), in list order
CardioModelsToTest ==
    << <<"cardio_stacking", "Stacking Ensemble">>,
       <<"cardio_rf", "Random Forest">>,
       <<"cardio_gb", "Gradient Boosting (XGBoost)">>,
       <<"cardio_lr", "Logistic Regression">>,
       <<"cardio_lightgbm", "LightGBM">>,
       <<"cardio_baggingsvm", "Bagging SVM">>,
       <<"cardio_blending", "Blending">>,
       <<"cardio_hardvoting", "Hard Voting">>,
       <<"cardio_softvoting", "Soft Voting">>,
       <<"cardio_nystroemsgd", "Nystroem SGD">>,
       <<"cardio_dt", "Decision Tree">>,
       <<"cardio_knn", "K-Nearest Neighbors">>,
       <<"cardio_mlp", "Multi-Layer Perceptron">>,
       <<"cardio_sgd", "SGD Classifier">> >>

\* heart_models_to_test: (model_key, model_name), in list order
HeartModelsToTest ==
    << <<"heart_stacking", "Stacking Ensemble">>,
       <<"heart_rf", "Random Forest">>,
       <<"heart_gb", "Gradient Boosting">>,
       <<"heart_nb", "Naive Bayes">> >>

ModelsToTestOf(sp) == IF sp = "lifestyle" THEN CardioModelsToTest ELSE HeartModelsToTest

\* the record appended to all_results for a model that answered prob
ModelResult(model_name, model_key, prob) ==
    [model_name |-> model_name,
     model_key |-> model_key,
     risk_score |-> prob,
     risk_level |-> IF 2 * prob > PROB_ONE THEN "High" ELSE "Low",
     confidence |-> Confidence(prob)]

RECURSIVE TestModels(_, _, _, _)
\* for model_key, model_name, ... in models_to_test: append the record of every model
\* the registry has and whose predict_proba does not raise
TestModels(reg, candidates, x, all_results) ==
    IF candidates = <<>> THEN all_results
    ELSE LET model == get_model(reg, Head(candidates)[1])
         IN  IF model # None /\ ~PredictProbaRaises(model)
             THEN TestModels(reg, Tail(candidates), x,
                     Append(all_results,
                            ModelResult(Head(candidates)[2], Head(candidates)[1],
                                        predict_proba(model, x))))
             ELSE TestModels(reg, Tail(candidates), x, all_results)

MaxByConfidenceTakesFirst(all_results, best) == best

RECURSIVE MaxByConfidence(_, _)
\* max(all_results, key=lambda x: x['confidence']) on a non-empty list: the first
\* record of the largest confidence
MaxByConfidence(all_results, best) ==
    IF all_results = <<>> THEN best
    ELSE MaxByConfidence(Tail(all_results),
                         IF Head(all_results).confidence > best.confidence
                         THEN Head(all_results) ELSE best)

\* "best_model" of the answer: five fields of the best record
BestModelOf(r) ==
    [model_name |-> r.model_name, model_key |-> r.model_key, risk_score |-> r.risk_score,
     risk_level |-> r.risk_level, confidence |-> r.confidence]

\* "consensus" of the answer
ConsensusOf(all_results) ==
    [high_risk_count |-> Len(SelectSeq(all_results, LAMBDA m : m.risk_level = "High")),
     low_risk_count |-> Len(SelectSeq(all_results, LAMBDA m : m.risk_level = "Low")),
     total_models |-> Len(all_results)]

\* the body of predict_lifestyle_compare / predict_clinical_compare for the patient x;
\* tabnet_prob is what MockTabNet draws.  max() of an empty list raises.
CompareAll(reg, sp, x, tabnet_prob) ==
    LET scaler == get_scaler(reg, ScalerKeyOf(sp))
        tested == TestModels(reg, ModelsToTestOf(sp), x, <<>>)
        all_results == IF sp = "lifestyle" /\ get_model(reg, "tabnet") # None
                       THEN Append(tested, ModelResult("TabNet", "tabnet", tabnet_prob))
                       ELSE tested
        failed == [NoResponse EXCEPT !.op = "compare", !.status = 500, !.space = sp,
                                     !.X = <<x>>]
    IN  IF ~TransformSucceeds(scaler, sp) THEN failed
        ELSE IF all_results = <<>> THEN failed
        ELSE [NoResponse EXCEPT
                !.op = "compare", !.status = 200, !.space = sp, !.X = <<x>>,
                !.tabnet = IF sp = "lifestyle" THEN <<tabnet_prob>> ELSE <<>>,
                !.all_models = all_results,
                !.best_model = Some(BestModelOf(MaxByConfidence(Tail(all_results),
                                                                Head(all_results)))),
                !.consensus = ConsensusOf(all_results)]

compare(sp, x, tabnet_prob) ==
    LET reg == AfterGet(Registry, disk)
    IN  /\ SetRegistry(reg)
        /\ resp' = CompareAll(reg, sp, x, tabnet_prob)
        /\ UNCHANGED <<space, patients, fileExists, exams, disk, last, got, job, writers>>

predict_lifestyle_compare == \E x \in Features, p \in TabNetProbValues :
    compare("lifestyle", x, p)
predict_clinical_compare == \E x \in Features : compare("clinical", x, 0)

\* the classifiers found in the models directory of the prediction specification
ClassifierContents ==
    {BrokenClassifier,
     Classifier([x \in Features |-> IF x = "x1" THEN 80000 ELSE 50000]),
     Classifier([x \in Features |-> IF x = "x1" THEN 20000 ELSE 80000]),
     Classifier([x \in Features |-> IF x = "x1" THEN 50000 ELSE 20000])}
\* the scaler found there: none, one fitted on frames of both shapes, or one fitted on
\* lifestyle frames only
ScalerContents == {None, Scaler(Spaces), Scaler({"lifestyle"})}
\* the classifier files that may be present there
PredictFiles ==
    {"ensemble_stacking.pkl", "ensemble_randomforest.pkl", "ensemble_xgboost.pkl", NB_FILE}

\* the models directory holding the classifier files of found and the scaler
Deployment(found, scaler) ==
    [f \in ModelsDirFiles |->
        IF f = SCALER_FILE THEN scaler
        ELSE IF f \in DOMAIN found THEN found[f]
        ELSE None]

\* the deployments the prediction specification starts from: at most MaxPresent
\* classifier files are present
PredictDeployments ==
    {Deployment(found, scaler) :
        found \in UNION {[present -> ClassifierContents] :
                            present \in {files \in SUBSET PredictFiles :
                                            Cardinality(files) <= MaxPresent}},
        scaler \in ScalerContents}

InitPredict ==
    /\ space = "lifestyle"
    /\ patients = <<"P1">>
    /\ fileExists = FALSE
    /\ exams = <<>>
    /\ scalers = EmptyScalers
    /\ models = EmptyModels
    /\ is_loaded = FALSE
    /\ disk \in PredictDeployments
    /\ last = NoRequest
    /\ resp = NoResponse
    /\ got = NoCall
    /\ job = NoJob
    /\ writers = NoWriters

NextPredict ==
    \/ startup_event
    \/ predict_lifestyle
    \/ predict_clinical
    \/ predict_lifestyle_compare
    \/ predict_clinical_compare

SpecPredict == InitPredict /\ [][NextPredict]_vars

(***************************************************************************)
(* model_loader.py called directly, while the training scripts             *)
(* (run_ensemble_models.py, run_single_models.py) rewrite artifact files.  *)
(***************************************************************************)
\* the registry was loaded from files that have changed since
Stale == is_loaded /\ (LoadedModels(disk) # models \/ LoadedScalers(disk) # scalers)

\* model_loader.load_models()
call_load_models ==
    /\ SetRegistry(load_models(Registry, disk))
    /\ got' = [op |-> "load_models", key |-> "", value |-> None, stale |-> Stale]
    /\ UNCHANGED <<space, patients, fileExists, exams, disk, last, resp, job, writers>>

\* model_loader.get_model(model_name)
call_get_model(model_name) ==
    LET reg == AfterGet(Registry, disk)
    IN  /\ SetRegistry(reg)
        /\ got' = [op |-> "get_model", key |-> model_name,
                   value |-> get_model(reg, model_name), stale |-> Stale]
        /\ UNCHANGED <<space, patients, fileExists, exams, disk, last, resp, job, writers>>

\* model_loader.get_scaler(scaler_name)
call_get_scaler(scaler_name) ==
    LET reg == AfterGet(Registry, disk)
    IN  /\ SetRegistry(reg)
        /\ got' = [op |-> "get_scaler", key |-> scaler_name,
                   value |-> get_scaler(reg, scaler_name), stale |-> Stale]
        /\ UNCHANGED <<space, patients, fileExists, exams, disk, last, resp, job, writers>>

\* joblib.dump(model, 'models/<file>') of a training script
joblib_dump(file, model) ==
    /\ disk' = [disk EXCEPT ![file] = model]
    /\ UNCHANGED <<space, patients, fileExists, exams, scalers, models, is_loaded,
                   last, resp, got, job, writers>>

\* the keys a caller may ask for: every key the loader sets, and one it never sets
UNKNOWN_KEY == "cardio_catboost"
ModelKeyArgs == ModelKeys \cup {UNKNOWN_KEY}
ScalerKeyArgs == ScalerKeys \cup {UNKNOWN_KEY}
\* the files the training scripts rewrite here, and the classifier they leave
DumpedFiles == {"ensemble_randomforest.pkl", NB_FILE}
RetrainedClassifier == Classifier([x \in Features |-> 80000])

GetModel == \E k \in ModelKeyArgs : call_get_model(k)
GetScaler == \E k \in ScalerKeyArgs : call_get_scaler(k)
JoblibDump == \E f \in DumpedFiles : joblib_dump(f, RetrainedClassifier)

\* the deployments the registry specification starts from: any of the classifier
\* files of PredictFiles may be missing, and so may the scaler
RegistryDeployments ==
    {Deployment([f \in present |-> Classifier([x \in Features |-> 20000])], scaler) :
        present \in SUBSET PredictFiles, scaler \in {None, Scaler(Spaces)}}

InitRegistry ==
    /\ space = "lifestyle"
    /\ patients = <<"P1">>
    /\ fileExists = FALSE
    /\ exams = <<>>
    /\ scalers = EmptyScalers
    /\ models = EmptyModels
    /\ is_loaded = FALSE
    /\ disk \in RegistryDeployments
    /\ last = NoRequest
    /\ resp = NoResponse
    /\ got = NoCall
    /\ job = NoJob
    /\ writers = NoWriters

NextRegistry ==
    \/ call_load_models
    \/ GetModel
    \/ GetScaler
    \/ JoblibDump

SpecRegistry == InitRegistry /\ [][NextRegistry]_vars

(***************************************************************************)
(* retrain_models.py: the retraining job, run for one --type (space), next *)
(* to the API it fetches from.  Whether a request reaches the API, and     *)
(* whether scikit-learn's transform and fit calls raise, is not decided by *)
(* the repository's code and is drawn freely.                              *)
(***************************************************************************)
MIN_SAMPLES_FOR_RETRAIN == 50

\* the columns export_*_training_data puts in the training data
LifestyleExportColumns ==
    {"gender", "age_bin", "BMI_Class", "MAP_Class", "cholesterol", "gluc", "smoke", "alco",
     "active", "history", "target"}
ClinicalExportColumns ==
    {"sex", "age_bin", "cp", "bp_class", "chol_class", "fbs", "restecg", "thalach_class",
     "exang", "oldpeak_class", "slope", "ca", "thal", "target"}
ExportColumnsOf(sp) == IF sp = "lifestyle" THEN LifestyleExportColumns ELSE ClinicalExportColumns

\* the columns retrain_*_models selects: feature_cols and 'target'
LifestyleRetrainColumns ==
    {"gender", "cholesterol", "gluc", "smoke", "alco", "active", "age_bin", "BMI_Class",
     "MAP_Class", "cluster", "target"}
ClinicalRetrainColumns ==
    {"sex", "age_bin", "cp", "bp_class", "chol_class", "fbs", "restecg", "thalach_class",
     "exang", "oldpeak_class", "slope", "ca", "thal", "target"}
RetrainColumnsOf(sp) ==
    IF sp = "lifestyle" THEN LifestyleRetrainColumns ELSE ClinicalRetrainColumns

\* scaler_path of retrain_*_models
RetrainScalerOf(sp) == IF sp = "lifestyle" THEN SCALER_FILE ELSE HEART_SCALER_FILE

\* the model types retrain_*_models fits, in order, and the file each is dumped to
RetrainDumpsOf(sp) ==
    IF sp = "lifestyle"
    THEN << <<"rf", "ensemble_randomforest.pkl">>,
            <<"gb", "ensemble_xgboost.pkl">>,
            <<"lr", "single_logisticregression.pkl">>,
            <<"stacking", "ensemble_stacking.pkl">> >>
    ELSE << <<"rf", "heart_rf.joblib">>,
            <<"gb", "heart_gb.joblib">>,
            <<"nb", "heart_nb.joblib">>,
            <<"stacking", "heart_stacking.joblib">> >>

\* the place, in the order of the fits, of the model type whose fit or cross_val_score
\* raises; NO_FIT_FAILS when none does
NO_FIT_FAILS == 0
FitFailures == {NO_FIT_FAILS} \cup {1, 2, 3, 4}

\* ready_for_training < MIN_SAMPLES_FOR_RETRAIN and not args.force
NotEnoughSamplesUsesTotal(stats, force) ==
    stats.total_examinations < MIN_SAMPLES_FOR_RETRAIN /\ ~force
NotEnoughSamples(stats, force) ==
    stats.ready_for_training < MIN_SAMPLES_FOR_RETRAIN /\ ~force

\* main(): arguments parsed, the loop entered for data_type = space
start_job(force) ==
    /\ job.pc \in {"idle", "done"}
    /\ job' = [NoJob EXCEPT !.pc = "stats", !.force = force]
    /\ UNCHANGED <<space, patients, fileExists, exams, scalers, models, is_loaded, disk,
                   last, resp, got, writers>>

\* stats = fetch_training_stats(data_type), then the threshold test; up: the request
\* reached the API and was answered
job_fetch_stats(up) ==
    /\ job.pc = "stats"
    /\ IF ~up
       THEN /\ job' = [job EXCEPT !.pc = "done", !.outcome = "no stats"]
            /\ UNCHANGED last
       ELSE /\ last' = Response("stats", 200, 0, <<>>, 0)
            /\ job' = IF NotEnoughSamples(Stats, job.force)
                      THEN [job EXCEPT !.pc = "done", !.stats = Some(Stats),
                                       !.outcome = "not enough new samples"]
                      ELSE [job EXCEPT !.pc = "data", !.stats = Some(Stats)]
    /\ UNCHANGED <<space, patients, fileExists, exams, scalers, models, is_loaded, disk,
                   resp, got, writers>>

\* what GET /training/export/<space> answers under "data": the target of every row
\* with a diagnosis, each row carrying the columns of ExportColumnsOf
ExportedData ==
    LET rows == TrainingRows(fileExists, exams)
    IN  [i \in 1..Len(rows) |-> rows[i].doctor_diagnosis[1]]

\* data = fetch_training_data(data_type), then `if not data or not data.get('data')`
job_fetch_data(up) ==
    /\ job.pc = "data"
    /\ IF ~up
       THEN /\ job' = [job EXCEPT !.pc = "done", !.fetched = TRUE,
                                  !.outcome = "no training data"]
            /\ UNCHANGED last
       ELSE /\ last' = Response("export", 200, 0, <<>>, 0)
            /\ job' = IF ExportedData = <<>>
                      THEN [job EXCEPT !.pc = "done", !.fetched = TRUE,
                                       !.outcome = "no training data"]
                      ELSE [job EXCEPT !.pc = "retrain", !.fetched = TRUE,
                                       !.data = Some(ExportedData)]
    /\ UNCHANGED <<space, patients, fileExists, exams, scalers, models, is_loaded, disk,
                   resp, got, writers>>

\* retrain_lifestyle_models(df) / retrain_clinical_models(df) inside the try of main():
\* df[feature_cols] raises on a column the data lacks, joblib.load raises on a missing
\* scaler file, and the four dumps come after the last fit
job_retrain(transform_raises, failing_fit) ==
    LET dumps == RetrainDumpsOf(space)
        raised == [job EXCEPT !.pc = "done", !.outcome = "error during retraining"]
    IN  /\ job.pc = "retrain"
        /\ IF ~(RetrainColumnsOf(space) \subseteq ExportColumnsOf(space))
           THEN job' = [raised EXCEPT !.error = "df[feature_cols]"] /\ UNCHANGED disk
           ELSE IF disk[RetrainScalerOf(space)] = None
           THEN job' = [raised EXCEPT !.error = "joblib.load"] /\ UNCHANGED disk
           ELSE IF transform_raises
           THEN job' = [raised EXCEPT !.error = "scaler.transform"] /\ UNCHANGED disk
           ELSE IF failing_fit # NO_FIT_FAILS
           THEN /\ job' = [raised EXCEPT
                             !.error = "fit",
                             !.failed = dumps[failing_fit][1],
                             !.fitted = {dumps[k][1] : k \in 1..(failing_fit - 1)}]
                /\ UNCHANGED disk
           ELSE /\ job' = [job EXCEPT !.pc = "done", !.outcome = "retrained",
                                      !.fitted = {dumps[k][1] : k \in 1..Len(dumps)},
                                      !.dumped = {dumps[k][2] : k \in 1..Len(dumps)}]
                /\ disk' = [f \in ModelsDirFiles |->
                              IF \E k \in 1..Len(dumps) : dumps[k][2] = f
                              THEN RetrainedClassifier ELSE disk[f]]
        /\ UNCHANGED <<space, patients, fileExists, exams, scalers, models, is_loaded,
                       last, resp, got, writers>>

\* the API process is started again: a new ModelLoader (ModelLoader.__new__), loaded
\* by startup_event from the files the models directory holds then
process_start ==
    /\ SetRegistry(load_models([scalers |-> EmptyScalers, models |-> EmptyModels,
                                is_loaded |-> FALSE], disk))
    /\ UNCHANGED <<space, patients, fileExists, exams, disk, last, resp, got, job, writers>>

\* an examination file of one pending row, one row diagnosed and trained, and n rows
\* diagnosed and not trained
StoreOfReady(n) ==
    [i \in 1..(n + 2) |->
        [id |-> i, patient_id |-> "P1", model_prediction |-> 0, model_confidence |-> 50000,
         doctor_diagnosis |-> IF i = 1 THEN None ELSE Some(i % 2),
         diagnosis_date |-> IF i = 1 THEN None ELSE Some(1),
         is_used_for_training |-> (i = 2)]]
\* the numbers of ready rows the retraining specification starts from
ReadyCounts == {0, MIN_SAMPLES_FOR_RETRAIN - 1}

\* the models directories the retraining specification starts from
RetrainDeployments ==
    {FullDisk,
     [FullDisk EXCEPT ![SCALER_FILE] = None],
     [FullDisk EXCEPT ![HEART_SCALER_FILE] = Scaler(Spaces)]}

InitRetrain ==
    /\ space \in Spaces
    /\ patients = <<"P1">>
    /\ fileExists = TRUE
    /\ exams \in {StoreOfReady(n) : n \in ReadyCounts}
    /\ scalers = EmptyScalers
    /\ models = EmptyModels
    /\ is_loaded = FALSE
    /\ disk \in RetrainDeployments
    /\ last = NoRequest
    /\ resp = NoResponse
    /\ got = NoCall
    /\ job = NoJob
    /\ writers = NoWriters

NextRetrain ==
    \/ \E force \in BOOLEAN : start_job(force)
    \/ \E up \in BOOLEAN : job_fetch_stats(up)
    \/ \E up \in BOOLEAN : job_fetch_data(up)
    \/ \E transform_raises \in BOOLEAN, failing_fit \in FitFailures :
          job_retrain(transform_raises, failing_fit)
    \/ UpdateExamDiagnosis
    \/ process_start

SpecRetrain == InitRetrain /\ [][NextRetrain]_vars

(***************************************************************************)
(* The examination handlers on a store that already holds an examination,  *)
(* whatever the models directory holds.                                    *)
(***************************************************************************)
\* an examination file as one earlier create request left it
StoreOfOne ==
    create_examination(FALSE, <<>>, [patient_id |-> "P1", model_prediction |-> 1,
                                     model_confidence |-> 80000])

InitStored ==
    /\ space \in Spaces
    /\ patients = <<"P1">>
    /\ fileExists = TRUE
    /\ exams \in {<<>>, StoreOfOne}
    /\ scalers = EmptyScalers
    /\ models = EmptyModels
    /\ is_loaded = FALSE
    /\ disk \in ExamDeployments
    /\ last = NoRequest
    /\ resp = NoResponse
    /\ got = NoCall
    /\ job = NoJob
    /\ writers = NoWriters

NextStored ==
    \/ startup_event
    \/ CreateExam
    \/ UpdateExamDiagnosis

SpecStored == InitStored /\ [][NextStored]_vars

(***************************************************************************)
(* database.py: the patient store, behind POST /patients and               *)
(* DELETE /patients/{patient_id}.  A missing patients file reads as an     *)
(* empty frame in create_patient and makes delete_patient return False, as *)
(* a file without rows does.                                               *)
(***************************************************************************)
\* datetime.now().year, the same in every request
THIS_YEAR == 2025

RECURSIVE Str(_)
\* str(n): the decimal digits of n
Str(n) == IF n < 10 THEN <<n>> ELSE Append(Str(n \div 10), n % 10)

RECURSIVE ZFill(_, _)
\* s.zfill(width)
ZFill(digits, width) == IF Len(digits) >= width THEN digits ELSE ZFill(<<0>> \o digits, width)

\* f"BN-{year}-{str(n).zfill(4)}"
PatientIdOf(year, n) == <<"BN", Str(year), ZFill(Str(n), 4)>>

\* new_id of create_patient: the number of rows plus one
NewPatientId(df) == PatientIdOf(THIS_YEAR, Len(df) + 1)

\* db.create_patient: the id column of the frame written
create_patient_frame(df) == Append(df, NewPatientId(df))

\* db.delete_patient: df[df['id'] != patient_id]
delete_patient_frame(df, patient_id) == SelectSeq(df, LAMBDA id : id # patient_id)

\* POST /patients
create_patient ==
    /\ Len(patients) < MaxPatients
    /\ patients' = create_patient_frame(patients)
    /\ last' = [Response("create_patient", 200, 0, <<>>, 0)
                   EXCEPT !.patient_id = NewPatientId(patients)]
    /\ UNCHANGED <<space, fileExists, exams, scalers, models, is_loaded, disk, resp, got,
                   job, writers>>

\* DELETE /patients/{patient_id}: 404 when no row was removed
delete_patient(patient_id) ==
    LET df == delete_patient_frame(patients, patient_id)
    IN  /\ IF Len(df) = Len(patients)
           THEN /\ last' = [Response("delete_patient", 404, 0, <<>>, 0)
                               EXCEPT !.patient_id = patient_id]
                /\ UNCHANGED patients
           ELSE /\ patients' = df
                /\ last' = [Response("delete_patient", 200, 0, <<>>, 0)
                               EXCEPT !.patient_id = patient_id]
        /\ UNCHANGED <<space, fileExists, exams, scalers, models, is_loaded, disk, resp,
                       got, job, writers>>

\* the patient ids a delete request may carry
PatientIdArgs == {PatientIdOf(THIS_YEAR, n) : n \in 1..(MaxPatients + 1)}

DeletePatient == \E p \in PatientIdArgs : delete_patient(p)

InitPatients ==
    /\ space = "lifestyle"
    /\ patients = <<>>
    /\ fileExists = FALSE
    /\ exams = <<>>
    /\ scalers = EmptyScalers
    /\ models = EmptyModels
    /\ is_loaded = FALSE
    /\ disk = FullDisk
    /\ last = NoRequest
    /\ resp = NoResponse
    /\ got = NoCall
    /\ job = NoJob
    /\ writers = NoWriters

NextPatients ==
    \/ create_patient
    \/ DeletePatient

SpecPatients == InitPatients /\ [][NextPatients]_vars

(***************************************************************************)
(* database.py: two processes (two API workers, or an API worker and a     *)
(* script) in the write functions of the examination store at once.  Each  *)
(* function is two steps on the file: pd.read_csv, then df.to_csv of the   *)
(* frame it made of what it read.  Each process calls one function.        *)
(***************************************************************************)
\* the exam_data a racing create carries
RaceExamData == [patient_id |-> "P1", model_prediction |-> 0, model_confidence |-> 70000]

\* df = pd.read_csv(FILE) of create_*_examination, update_*_diagnosis and
\* mark_*_as_trained: the process keeps the frame (FileNotFoundError is exists = FALSE)
store_read(w, op, exam_id, exam_ids, diagnosis, today) ==
    /\ writers[w].pc = "idle"
    /\ writers' = [writers EXCEPT ![w] =
                     [NoWriter EXCEPT !.pc = "read", !.op = op, !.id = exam_id,
                                      !.ids = exam_ids, !.diagnosis = diagnosis,
                                      !.today = today, !.exists = fileExists,
                                      !.df = exams]]
    /\ UNCHANGED <<space, patients, fileExists, exams, scalers, models, is_loaded, disk,
                   last, resp, got, job>>

\* a process that reads the file again when it writes
WrittenFromFile(wr, exists, df) ==
    IF wr.op = "create"
    THEN [wrote |-> TRUE, df |-> create_examination(exists, df, RaceExamData),
          ret |-> NewId(exists, df)]
    ELSE IF wr.op = "update"
    THEN LET r == update_diagnosis(exists, df, wr.id, wr.diagnosis[1], wr.today[1])
         IN  [wrote |-> r.found, df |-> r.df, ret |-> IF r.found THEN 1 ELSE 0]
    ELSE LET r == mark_as_trained(exists, df, wr.ids)
         IN  [wrote |-> exists, df |-> r.df, ret |-> r.count]

\* the rest of the function the process wr is in, given the file as it is now
\* (exists, df): the frame is made of what wr read, and to_csv writes the whole of it;
\* update_*_diagnosis returns before to_csv when the id has no row, and only create
\* writes after FileNotFoundError
Written(wr, exists, df) ==
    IF wr.op = "create"
    THEN [wrote |-> TRUE, df |-> create_examination(wr.exists, wr.df, RaceExamData),
          ret |-> NewId(wr.exists, wr.df)]
    ELSE IF wr.op = "update"
    THEN LET r == update_diagnosis(wr.exists, wr.df, wr.id, wr.diagnosis[1], wr.today[1])
         IN  [wrote |-> r.found, df |-> r.df, ret |-> IF r.found THEN 1 ELSE 0]
    ELSE LET r == mark_as_trained(wr.exists, wr.df, wr.ids)
         IN  [wrote |-> wr.exists, df |-> r.df, ret |-> r.count]

\* new_df.to_csv(FILE) / df.to_csv(FILE) and the return
store_write(w) ==
    LET wr == writers[w]
        o == 3 - w
        out == Written(wr, fileExists, exams)
    IN  /\ wr.pc = "read"
        /\ Len(out.df) <= MaxExams
        /\ IF out.wrote
           THEN exams' = out.df /\ fileExists' = TRUE
           ELSE UNCHANGED <<exams, fileExists>>
        /\ writers' = [writers EXCEPT
                         ![w] = [wr EXCEPT !.pc = "done", !.wrote = out.wrote,
                                           !.ret = out.ret],
                         ![o] = [@ EXCEPT !.stale = @ \/ (out.wrote /\ writers[o].pc = "read")]]
        /\ UNCHANGED <<space, patients, scalers, models, is_loaded, disk, last, resp, got,
                       job>>

InitRace ==
    /\ space = "lifestyle"
    /\ patients = <<"P1">>
    /\ fileExists = TRUE
    /\ exams \in {<<>>, StoreOfOne}
    /\ scalers = EmptyScalers
    /\ models = EmptyModels
    /\ is_loaded = FALSE
    /\ disk = FullDisk
    /\ last = NoRequest
    /\ resp = NoResponse
    /\ got = NoCall
    /\ job = NoJob
    /\ writers = NoWriters

NextRace ==
    \/ \E w \in Writers : store_read(w, "create", 0, <<>>, None, None)
    \/ \E w \in Writers, e \in ExamIdArgs, d \in Diagnoses, today \in Days :
          store_read(w, "update", e, <<>>, Some(d), Some(today))
    \/ \E w \in Writers, ids \in IdLists : store_read(w, "mark", 0, ids, None, None)
    \/ \E w \in Writers : store_write(w)

SpecRace == InitRace /\ [][NextRace]_vars

(***************************************************************************)
(* Set-diagnosis and mark-trained requests on a store of two examinations, *)
(* with any integer as the diagnosis and more than one day.                *)
(***************************************************************************)
\* DiagnosisUpdateInput.doctor_diagnosis: int, with no bound on the value
DiagnosisArgs == {-1, 0, 1, 2}
\* the days the requests are served on
DiagnosisDays == {1, 2}

UpdateExamDiagnosisAny ==
    \E e \in ExamIdArgs, d \in DiagnosisArgs, today \in DiagnosisDays :
        update_exam_diagnosis(e, d, today)

InitDiagnosis ==
    /\ space \in Spaces
    /\ patients = <<"P1">>
    /\ fileExists = TRUE
    /\ exams = StoreOfReady(0)
    /\ scalers = EmptyScalers
    /\ models = EmptyModels
    /\ is_loaded = FALSE
    /\ disk = FullDisk
    /\ last = NoRequest
    /\ resp = NoResponse
    /\ got = NoCall
    /\ job = NoJob
    /\ writers = NoWriters

NextDiagnosis ==
    \/ UpdateExamDiagnosisAny
    \/ MarkTrained

SpecDiagnosis == InitDiagnosis /\ [][NextDiagnosis]_vars

(***************************************************************************)
(* Properties of the examination store.                                    *)
(***************************************************************************)
Rows(df) == {df[i] : i \in 1..Len(df)}
Ids(df) == {df[i].id : i \in 1..Len(df)}
ListedIds(ids) == {ids[k] : k \in 1..Len(ids)}
PatientExistsInStore(patient_id) == patient_id \in {patients[i] : i \in 1..Len(patients)}
\* the rows other than those with id e are the same in both frames
OthersUnchanged(df, new_df, e) ==
    /\ Len(new_df) = Len(df)
    /\ \A i \in 1..Len(df) : df[i].id # e => new_df[i] = df[i]

\* C1: in every reachable state the stats query answers
\* pending_diagnosis + ready_for_training + already_trained = total_examinations.
StatsSumToTotal ==
    Stats.pending_diagnosis + Stats.ready_for_training + Stats.already_trained
        = Stats.total_examinations

\* C2: in every reachable state a row with is_used_for_training = true has a
\* doctor_diagnosis, so that no row is counted both as pending and as trained.
TrainedRowsAreDiagnosed ==
    \A i \in 1..Len(exams) : exams[i].is_used_for_training => exams[i].doctor_diagnosis # None

\* C3: mark_trained(ids) answers without an error, flags exactly the rows whose id is
\* listed and changes nothing else of them, leaves every other row as it was, adds no
\* row and creates no file, and returns the number of listed ids that have a row
\* (an id listed twice counts twice).
MarkTrainedFlagsExistingIds ==
    [][last'.op = "mark" =>
        LET ids == last'.ids
            known == {k \in 1..Len(ids) : ids[k] \in Ids(exams)}
        IN  /\ last'.status = 200
            /\ fileExists' = fileExists
            /\ Len(exams') = Len(exams)
            /\ \A i \in 1..Len(exams) :
                  exams'[i] = IF exams[i].id \in ListedIds(ids)
                              THEN [exams[i] EXCEPT !.is_used_for_training = TRUE]
                              ELSE exams[i]
            /\ last'.ret = Cardinality(known)]_vars

\* a mark-trained request that listed the id of a row and an id of no row was served
MarkTrainedSkippedUnknownId ==
    /\ last.op = "mark"
    /\ Len(last.ids) = 2
    /\ last.ret = 1
    /\ \E i \in 1..Len(exams) : exams[i].is_used_for_training

\* C4 as stated: the second of two identical mark_trained calls in a row returns 0.
SecondMarkReturnsZero ==
    (last.op = "mark" /\ last.repeat) => last.ret = 0

\* C4 as amended: the second of two identical mark_trained calls in a row leaves the
\* store as the first call left it, so it flags no further row and the stats are the
\* same, and it returns what the first call returned: the number of listed ids that
\* have a row.
SecondMarkChangesNothing ==
    [][(last'.op = "mark" /\ last'.repeat) =>
        /\ exams' = exams
        /\ fileExists' = fileExists
        /\ Stats' = Stats
        /\ last'.ret = last.ret
        /\ last'.ret = Cardinality({k \in 1..Len(last'.ids) : last'.ids[k] \in Ids(exams)})]_vars

\* the same mark-trained request was served twice in a row and found a row to flag
MarkedTwiceInARow ==
    /\ last.op = "mark"
    /\ last.repeat
    /\ last.ret >= 1
    /\ \E i \in 1..Len(exams) : exams[i].is_used_for_training

\* C5: a row with is_used_for_training = true keeps its place, its id and the flag in
\* every later state, whatever operation is served.
TrainedIsPermanent ==
    [][\A i \in 1..Len(exams) :
          exams[i].is_used_for_training =>
              /\ i <= Len(exams')
              /\ exams'[i].id = exams[i].id
              /\ exams'[i].is_used_for_training]_vars

\* a diagnosis was set on a row already flagged as trained, and the flag is still set
DiagnosedAfterTrained ==
    /\ last.op = "diagnose"
    /\ last.status = 200
    /\ \E i \in 1..Len(exams) : exams[i].id = last.id /\ exams[i].is_used_for_training

\* C6: for a pending, unflagged examination e, set-diagnosis(e) moves one from pending
\* to ready, and a mark_trained([e]) that follows it moves one from ready to trained;
\* both leave total_examinations and every other row as they were.
DiagnoseThenMarkMovesOneCount ==
    [][/\ (/\ last'.op = "diagnose"
           /\ last'.status = 200
           /\ \E i \in 1..Len(exams) : /\ exams[i].id = last'.id
                                       /\ exams[i].doctor_diagnosis = None
                                       /\ ~exams[i].is_used_for_training)
          => /\ Stats' = [Stats EXCEPT !.pending_diagnosis = @ - 1,
                                       !.ready_for_training = @ + 1]
             /\ OthersUnchanged(exams, exams', last'.id)
       /\ (/\ last'.op = "mark"
           /\ last.op = "diagnose"
           /\ last.status = 200
           /\ last'.ids = <<last.id>>
           /\ \E i \in 1..Len(exams) : /\ exams[i].id = last.id
                                       /\ ~exams[i].is_used_for_training)
          => /\ Stats' = [Stats EXCEPT !.ready_for_training = @ - 1,
                                       !.already_trained = @ + 1]
             /\ OthersUnchanged(exams, exams', last.id)]_vars

\* an examination was diagnosed and then marked trained, next to another one still pending
MarkedAfterDiagnosis ==
    /\ last.op = "mark"
    /\ last.ret = 1
    /\ Len(last.ids) = 1
    /\ \E i, j \in 1..Len(exams) :
          /\ exams[i].id = last.ids[1]
          /\ exams[i].doctor_diagnosis # None
          /\ exams[i].is_used_for_training
          /\ exams[j].doctor_diagnosis = None
          /\ ~exams[j].is_used_for_training

\* C7: create-examination with a patient_id of no patient, and set-diagnosis with an id
\* of no examination, answer 404 and leave the examination file as it was: no row is
\* added, no field changes, no file is created.
NotFoundLeavesStoreUnchanged ==
    [][/\ (last'.op = "create" /\ ~PatientExistsInStore(last'.patient_id))
          => last'.status = 404
       /\ (last'.op = "diagnose" /\ (~fileExists \/ last'.id \notin Ids(exams)))
          => last'.status = 404
       /\ last'.status = 404 => (exams' = exams /\ fileExists' = fileExists)]_vars

\* a set-diagnosis on an id of no row was refused while the file held an examination
RefusedWithRowsStored ==
    /\ last.status = 404
    /\ last.op = "diagnose"
    /\ last.id \notin Ids(exams)
    /\ Len(exams) >= 1

\* C8: a successful create-examination appends exactly one row and leaves every row
\* before it unchanged; the new row has model_prediction 1 if the primary classifier's
\* probability is above 0.5 and 0 otherwise, a model_confidence, no doctor_diagnosis,
\* no diagnosis_date and is_used_for_training = false.
CreateAppendsOnePendingRow ==
    [][(last'.op = "create" /\ last'.status = 200) =>
              LET new == exams'[Len(exams')]
                  primary == models'[PrimaryKeyOf(space)][1]
              IN  /\ fileExists'
                  /\ Len(exams') = Len(exams) + 1
                  /\ \A i \in 1..Len(exams) : exams'[i] = exams[i]
                  /\ new.patient_id = last'.patient_id
                  /\ new.model_prediction \in {0, 1}
                  /\ new.model_prediction = 1 <=> 2 * primary.probs[last'.x] > PROB_ONE
                  /\ new.model_confidence \in 0..PROB_ONE
                  /\ new.doctor_diagnosis = None
                  /\ new.diagnosis_date = None
                  /\ new.is_used_for_training = FALSE]_vars

\* an examination was created after an earlier one had been diagnosed and marked trained
CreatedNextToTrainedRow ==
    /\ last.op = "create"
    /\ last.status = 200
    /\ Len(exams) >= 2
    /\ exams[1].doctor_diagnosis # None
    /\ exams[1].is_used_for_training
    /\ exams[Len(exams)].id = last.id

\* C9: every create assigns the largest id of the file plus one, or 1 when the file is
\* empty or missing, and in every state the ids of the file strictly increase in file
\* order, so that no two rows share an id.
IdsAssignedPastTheMaximum ==
    [][/\ \A i, j \in 1..Len(exams') : i < j => exams'[i].id < exams'[j].id
       /\ (last'.op = "create" /\ last'.status = 200) =>
             /\ last'.id = exams'[Len(exams')].id
             /\ last'.id = IF fileExists /\ exams # <<>>
                           THEN (CHOOSE m \in Ids(exams) : \A x \in Ids(exams) : x <= m) + 1
                           ELSE 1]_vars

\* a second examination was created and was given the id 2
SecondExaminationCreated ==
    /\ last.op = "create"
    /\ last.status = 200
    /\ last.id = 2
    /\ Len(exams) = 2
    /\ exams[1].id = 1

(***************************************************************************)
(* Properties of the single-best prediction.                               *)
(***************************************************************************)
\* the candidates of the answered request that produced a probability, in the order
\* they are run: the listed models the registry holds and that did not raise, then
\* TabNet for a lifestyle request; each with its display name and its probabilities
Produced ==
    LET cands == CandidatesOf(resp.space)
        ran == SelectSeq(cands, LAMBDA c : models[c[1]] # None /\ ~models[c[1]][1].raises)
        listed == [k \in 1..Len(ran) |->
                     [key |-> ran[k][1],
                      name |-> ran[k][2],
                      probs |-> [i \in 1..Len(resp.X) |-> models[ran[k][1]][1].probs[resp.X[i]]]]]
    IN  IF resp.space = "lifestyle"
        THEN Append(listed, [key |-> "tabnet", name |-> "TabNet", probs |-> resp.tabnet])
        ELSE listed

ConfidenceOf(p) == IF 2 * p > PROB_ONE THEN p ELSE PROB_ONE - p

\* C10: for every sample of an answered single-best request, risk_score is the
\* probability of a producing model whose confidence no producing model exceeds, and
\* every producing model run before it has a strictly smaller confidence (on a tie
\* the earliest in candidate order wins).
BestIsFirstOfMaximalConfidence ==
    resp.status = 200 =>
        \A i \in 1..Len(resp.results) :
            \E w \in 1..Len(Produced) :
                /\ resp.results[i].risk_score = Produced[w].probs[i]
                /\ resp.results[i].best_model = Produced[w].name
                /\ \A k \in 1..Len(Produced) :
                      ConfidenceOf(Produced[k].probs[i]) <= ConfidenceOf(Produced[w].probs[i])
                /\ \A k \in 1..(w - 1) :
                      ConfidenceOf(Produced[k].probs[i]) < ConfidenceOf(Produced[w].probs[i])

\* a two-sample request was answered where two models tie in confidence on the first
\* sample, the earlier one was returned, and the second sample was won by another model
TieWonByEarlierModel ==
    /\ resp.status = 200
    /\ Len(resp.results) = 2
    /\ Len(Produced) >= 3
    /\ resp.results[1].best_model # resp.results[2].best_model
    /\ \E k, l \in 1..Len(Produced) :
          /\ k < l
          /\ Produced[k].name = resp.results[1].best_model
          /\ Produced[k].probs[1] # Produced[l].probs[1]
          /\ ConfidenceOf(Produced[k].probs[1]) = ConfidenceOf(Produced[l].probs[1])

\* C11: in every answered prediction, single-best or compare, a risk_score lies in
\* [0, 1], the confidence next to it is the risk_score when the risk_score is above
\* 0.5 and 1 - risk_score otherwise, and so lies in [0.5, 1].
ConfidenceFollowsRiskScore ==
    LET Follows(r) ==
            /\ r.risk_score \in 0..PROB_ONE
            /\ r.confidence = IF 2 * r.risk_score > PROB_ONE
                              THEN r.risk_score ELSE PROB_ONE - r.risk_score
            /\ 2 * r.confidence >= PROB_ONE
            /\ r.confidence <= PROB_ONE
    IN  resp.status = 200 =>
            /\ \A i \in 1..Len(resp.results) : Follows(resp.results[i])
            /\ \A k \in 1..Len(resp.all_models) : Follows(resp.all_models[k])
            /\ resp.op = "compare" => Follows(resp.best_model[1])

\* a compare request was answered with a model above 0.5 and a model below 0.5, the
\* best of them being one below 0.5
ComparedAboveAndBelowHalf ==
    /\ resp.op = "compare"
    /\ resp.status = 200
    /\ 2 * resp.best_model[1].risk_score < PROB_ONE
    /\ \E k \in 1..Len(resp.all_models) : 2 * resp.all_models[k].risk_score > PROB_ONE

\* C12: in every single-best answer, risk_level is "High" exactly when the risk_score
\* is above 0.5; a risk_score of exactly 0.5 is "Low".
HighIffAboveHalf ==
    (resp.op = "predict" /\ resp.status = 200) =>
        \A i \in 1..Len(resp.results) :
            /\ resp.results[i].risk_level \in {"High", "Low"}
            /\ resp.results[i].risk_level = "High" <=> 2 * resp.results[i].risk_score > PROB_ONE

\* a single-best answer returned a risk_score of exactly 0.5 as "Low" next to a "High"
HalfReturnedAsLow ==
    /\ resp.op = "predict"
    /\ resp.status = 200
    /\ \E i, j \in 1..Len(resp.results) :
          /\ 2 * resp.results[i].risk_score = PROB_ONE
          /\ resp.results[i].risk_level = "Low"
          /\ resp.results[j].risk_level = "High"

\* the scaler took the frame of the answered request, so its models were run
ModelsWereRun ==
    /\ resp.op # "none"
    /\ resp.X # <<>>
    /\ TransformSucceeds(scalers[ScalerKeyOf(resp.space)], resp.space)

\* the listed candidates of the answered request the registry does not hold, and those
\* whose predict_proba raises
Candidates == {CandidatesOf(resp.space)[k] : k \in 1..Len(CandidatesOf(resp.space))}
MissingCandidates == {c \in Candidates : models[c[1]] = None}
FailedCandidates == {c \in Candidates : models[c[1]] # None /\ models[c[1]][1].raises}

\* C13: the model named in model_used of a single-best result is a candidate of the
\* request (a listed model, or TabNet for a lifestyle request) that the registry holds
\* and whose inference did not raise, and the count in model_used is the number of
\* such candidates.
ModelUsedProducedAProbability ==
    (resp.op = "predict" /\ resp.status = 200) =>
        \A i \in 1..Len(resp.results) :
            /\ \E w \in 1..Len(Produced) : resp.results[i].best_model = Produced[w].name
            /\ \A c \in MissingCandidates \cup FailedCandidates :
                  resp.results[i].best_model # c[2]
            /\ resp.results[i].considered = Len(Produced)

\* a two-sample single-best request was answered while one listed model raised and
\* another was missing from the registry
AnsweredDespiteFailedAndMissing ==
    /\ resp.op = "predict"
    /\ resp.status = 200
    /\ Len(resp.results) = 2
    /\ FailedCandidates # {}
    /\ \E c \in MissingCandidates : c[1] \in {"cardio_rf", "heart_rf"}

\* C14: when a candidate raises during inference and some candidate produces a
\* probability, the request is answered: every producing candidate was run, those
\* listed after the failing one too, and the result is chosen among them.
FailingModelIsSkipped ==
    (ModelsWereRun /\ FailedCandidates # {} /\ Produced # <<>>) =>
        /\ resp.status = 200
        /\ resp.op = "predict" =>
              /\ [k \in 1..Len(resp.preds) |-> resp.preds[k].name]
                    = [k \in 1..Len(Produced) |-> Produced[k].name]
              /\ \A i \in 1..Len(resp.results) :
                    \E w \in 1..Len(Produced) : resp.results[i].best_model = Produced[w].name
        /\ resp.op = "compare" =>
              /\ [k \in 1..Len(resp.all_models) |-> resp.all_models[k].model_key]
                    = [k \in 1..Len(Produced) |-> Produced[k].key]
              /\ \E w \in 1..Len(Produced) : resp.best_model[1].model_key = Produced[w].key

\* a clinical single-best request was answered by a model listed after one that raised
WonAfterFailedModel ==
    /\ resp.op = "predict"
    /\ resp.status = 200
    /\ resp.space = "clinical"
    /\ models["heart_stacking"] # None
    /\ models["heart_stacking"][1].raises
    /\ Len(resp.results) >= 1
    /\ resp.results[1].best_model # "Stacking Ensemble"

\* C15: a single-best or compare request for which no candidate produced a
\* probability (none available, or every one raised) is answered 500 and carries no
\* prediction.
NoModelNoAnswer ==
    (resp.op # "none" /\ Produced = <<>>) =>
        /\ resp.status = 500
        /\ resp.results = <<>>
        /\ resp.all_models = <<>>
        /\ resp.best_model = None

\* a clinical single-best request whose frame was scaled was refused because one
\* candidate raised and the others were missing
RefusedWithoutAnyModel ==
    /\ resp.op = "predict"
    /\ ModelsWereRun
    /\ Produced = <<>>
    /\ FailedCandidates # {}
    /\ MissingCandidates # {}
    /\ resp.status = 500

\* C16: the answer of a compare request holds one record per candidate that produced
\* a probability, in candidate order; best_model repeats a record of all_models whose
\* confidence no record exceeds; high_risk_count is the number of records with
\* risk_score > 0.5, low_risk_count the number with risk_score <= 0.5, and the two
\* add up to total_models, the number of records.
CompareSummarisesAllModels ==
    (resp.op = "compare" /\ resp.status = 200) =>
        LET all == resp.all_models
            best == resp.best_model[1]
            high == {k \in 1..Len(all) : 2 * all[k].risk_score > PROB_ONE}
            low == {k \in 1..Len(all) : 2 * all[k].risk_score <= PROB_ONE}
        IN  /\ Len(all) = Len(Produced)
            /\ \A k \in 1..Len(all) : /\ all[k].model_key = Produced[k].key
                                       /\ all[k].risk_score = Produced[k].probs[1]
            /\ \E k \in 1..Len(all) : best = BestModelOf(all[k])
            /\ \A k \in 1..Len(all) : all[k].confidence <= best.confidence
            /\ resp.consensus.high_risk_count = Cardinality(high)
            /\ resp.consensus.low_risk_count = Cardinality(low)
            /\ resp.consensus.total_models = Len(all)
            /\ resp.consensus.high_risk_count + resp.consensus.low_risk_count
                  = resp.consensus.total_models

\* a compare request was answered with three models of which the second, alone above
\* 0.5, is the best, and one sits exactly on 0.5
ComparedThreeModels ==
    /\ resp.op = "compare"
    /\ resp.status = 200
    /\ Len(resp.all_models) = 3
    /\ resp.consensus.high_risk_count = 1
    /\ resp.consensus.low_risk_count = 2
    /\ 2 * resp.all_models[1].risk_score = PROB_ONE
    /\ resp.best_model[1].model_key = resp.all_models[2].model_key

\* C17: a single-best request answered right after an answered single-best request
\* of the same feature space and the same batch, the registry being the same, gets
\* the same results (risk_score, risk_level, model_used and confidence).
RepeatedPredictGivesSameResult ==
    [][(/\ resp.op = "predict"
        /\ resp.status = 200
        /\ resp'.op = "predict"
        /\ resp'.space = resp.space
        /\ resp'.X = resp.X
        /\ models' = models
        /\ scalers' = scalers)
       => (resp'.status = 200 /\ resp'.results = resp.results)]_vars

(***************************************************************************)
(* Properties of the model registry.                                       *)
(***************************************************************************)
\* C18: once the registry is loaded, no call of load_models, get_model or get_scaler
\* changes the models and scalers mappings or unloads it, whatever has been written
\* to the artifact files since.
LoadedRegistryIsFrozen ==
    [][is_loaded => (is_loaded' /\ models' = models /\ scalers' = scalers)]_vars

\* load_models was called on a loaded registry after a training script had rewritten
\* a file, and the registry still holds what it loaded first
LoadCalledAfterRewrite ==
    /\ got.op = "load_models"
    /\ got.stale
    /\ is_loaded
    /\ models["cardio_rf"] # disk["ensemble_randomforest.pkl"]

\* C19: whatever artifact files are missing, a first load completes and leaves under
\* every key what the key's file held, nothing (None) when the file is missing; and
\* get_model and get_scaler answer, for a key the loader sets or not, with what the
\* registry holds under the key, or None.
LoadMirrorsStorage ==
    [][/\ (~is_loaded /\ is_loaded') =>
             /\ \A k \in CardioKeys : models'[k] = disk[FileOfCardioKey(k)]
             /\ models'["heart_rf"] = disk["ensemble_randomforest.pkl"]
             /\ models'["heart_gb"] = disk["ensemble_xgboost.pkl"]
             /\ models'["heart_stacking"] = disk["ensemble_stacking.pkl"]
             /\ models'["heart_nb"] = disk[NB_FILE]
             /\ \A k \in ScalerKeys : scalers'[k] = disk[SCALER_FILE]
       /\ got'.op # "none" => is_loaded'
       /\ got'.op = "get_model" =>
             got'.value = IF got'.key \in ModelKeys THEN models'[got'.key] ELSE None
       /\ got'.op = "get_scaler" =>
             got'.value = IF got'.key \in ScalerKeys THEN scalers'[got'.key] ELSE None]_vars

(***************************************************************************)
(* Properties of the retraining job.                                       *)
(***************************************************************************)
\* C20: when the job, run without --force, is answered a ready_for_training count
\* below the threshold of 50, it stops there with "not enough new samples": it has
\* asked for no training data, fitted no model and overwritten no artifact file, and
\* it does none of that until it is started again.
SkipsBelowThreshold ==
    [][/\ (/\ job.pc = "stats"
           /\ job'.stats # None
           /\ Stats.ready_for_training < MIN_SAMPLES_FOR_RETRAIN
           /\ ~job.force)
          => /\ job'.pc = "done"
             /\ job'.outcome = "not enough new samples"
       /\ job'.outcome = "not enough new samples"
          => /\ ~job'.fetched
             /\ job'.data = None
             /\ job'.fitted = {}
             /\ job'.dumped = {}
             /\ disk' = disk]_vars

\* the job skipped a store of 51 examinations of which 49 were ready for training
SkippedOneShortOfThreshold ==
    /\ job.pc = "done"
    /\ job.outcome = "not enough new samples"
    /\ job.stats[1].ready_for_training = MIN_SAMPLES_FOR_RETRAIN - 1
    /\ job.stats[1].total_examinations > MIN_SAMPLES_FOR_RETRAIN

\* the model types of the space the job runs for, with the file each is dumped to
RetrainDumps == {RetrainDumpsOf(space)[k] : k \in 1..Len(RetrainDumpsOf(space))}

\* C21: when the fit of one model type has raised during a retrain, every other model
\* type of the feature-space has been fitted and its artifact file overwritten.
OneFitFailureSparesTheOthers ==
    job.failed # "" =>
        \A d \in RetrainDumps :
            d[1] # job.failed => d[1] \in job.fitted /\ d[2] \in job.dumped

\* C22: the step that ends a retrain with success leaves every record the retrain
\* consumed (every record with a diagnosis, when none was diagnosed since the export)
\* marked is_used_for_training, so that none is ready for training any more.
RetrainMarksConsumedRecords ==
    [][(/\ job.pc = "retrain"
        /\ job'.outcome = "retrained"
        /\ Len(job.data[1]) = Len(TrainingRows(fileExists, exams)))
       => /\ \A i \in 1..Len(exams') :
                exams'[i].doctor_diagnosis # None => exams'[i].is_used_for_training
          /\ get_exam_stats(fileExists', exams').ready_for_training = 0]_vars

\* the registry key under which the model type of a feature-space is served
ServedKeyOf(sp, model_type) ==
    IF sp = "lifestyle"
    THEN CASE model_type = "rf" -> "cardio_rf"
           [] model_type = "gb" -> "cardio_gb"
           [] model_type = "lr" -> "cardio_lr"
           [] model_type = "stacking" -> "cardio_stacking"
    ELSE CASE model_type = "rf" -> "heart_rf"
           [] model_type = "gb" -> "heart_gb"
           [] model_type = "nb" -> "heart_nb"
           [] model_type = "stacking" -> "heart_stacking"

\* C23: once a retrain has succeeded and the registry holds what a process start
\* loads from the models directory, the registry serves, under the key of each model
\* type of the feature-space, the file the retrain overwrote, and under the scaler key
\* of the feature-space the scaler file the retrain read.
RegistryServesRetrainedFiles ==
    (is_loaded /\ ~Stale /\ job.outcome = "retrained") =>
        /\ \A d \in RetrainDumps : models[ServedKeyOf(space, d[1])] = disk[d[2]]
        /\ scalers[ScalerKeyOf(space)] = disk[RetrainScalerOf(space)]

\* C29: a forced lifestyle retrain that was given training data does not fail on a
\* column the data lacks.
LifestyleRetrainFindsItsColumns ==
    (space = "lifestyle" /\ job.pc = "done" /\ job.force /\ job.data # None)
        => job.error # "df[feature_cols]"

(***************************************************************************)
(* Properties of the registry's two feature-spaces.                        *)
(***************************************************************************)
\* what the registry would hold had it been loaded without the file of a cardio model
LoadedWithout(key) == LoadedModels([disk EXCEPT ![FileOfCardioKey(key)] = None])

\* C24: in a loaded registry that holds what the models directory holds, whether a
\* heart model is available does not depend on any cardio model: without the file of
\* any one cardio model, every heart model would be available or not as it is now.
HeartModelsIndependentOfCardio ==
    (is_loaded /\ ~Stale) =>
        \A c \in CardioKeys, h \in HeartKeys :
            (LoadedWithout(c)[h] = None) <=> (models[h] = None)

(***************************************************************************)
(* Properties of a create-examination request that cannot predict.         *)
(***************************************************************************)
\* the registry cannot serve a create request of the space: the scaler's transform
\* raises, or the primary model is missing, or its predict_proba raises
PrimaryUnusable(reg) ==
    \/ reg.scalers[ScalerKeyOf(space)] = None
    \/ space \notin reg.scalers[ScalerKeyOf(space)][1].accepts
    \/ reg.models[PrimaryKeyOf(space)] = None
    \/ reg.models[PrimaryKeyOf(space)][1].raises

\* C28: a create-examination request for an existing patient, served by a registry
\* whose scaler or primary model is unusable, is answered 500 and persists nothing:
\* the examination file and its rows are as before and the next id is the same.
FailedCreatePersistsNothing ==
    [][(/\ last'.op = "create"
        /\ PatientExistsInStore(last'.patient_id)
        /\ PrimaryUnusable([scalers |-> scalers', models |-> models']))
       => /\ last'.status = 500
          /\ exams' = exams
          /\ fileExists' = fileExists
          /\ NewId(fileExists', exams') = NewId(fileExists, exams)]_vars

\* a create request for an existing patient was refused on a store holding an
\* examination, the primary model being loaded and raising
CreateRefusedOnStoredRows ==
    /\ last.op = "create"
    /\ last.status = 500
    /\ PatientExistsInStore(last.patient_id)
    /\ exams = StoreOfOne
    /\ is_loaded
    /\ models[PrimaryKeyOf(space)] # None
    /\ models[PrimaryKeyOf(space)][1].raises

(***************************************************************************)
(* Properties of set-diagnosis.                                            *)
(***************************************************************************)
\* C26: in every state of the examination store, every record's doctor_diagnosis is
\* absent or 0 or 1, whatever integer the set-diagnosis requests carried.
DiagnosisIsAbsentOrBinary ==
    \A i \in 1..Len(exams) : exams[i].doctor_diagnosis \in {None, Some(0), Some(1)}

\* C27: a set-diagnosis request for the id of a stored examination is answered 200;
\* the record of that id then holds the diagnosis and the date of the request,
\* whatever it held before, with its id, patient_id, model_prediction,
\* model_confidence and is_used_for_training as before; every other record is as
\* before and no record is added or removed.
DiagnosisAlwaysOverwrites ==
    [][(last'.op = "diagnose" /\ fileExists /\ last'.id \in Ids(exams))
       => /\ last'.status = 200
          /\ Len(exams') = Len(exams)
          /\ \A i \in 1..Len(exams) :
                IF exams[i].id = last'.id
                THEN /\ exams'[i].doctor_diagnosis = last'.diagnosis
                     /\ exams'[i].diagnosis_date = last'.today
                     /\ exams'[i].id = exams[i].id
                     /\ exams'[i].patient_id = exams[i].patient_id
                     /\ exams'[i].model_prediction = exams[i].model_prediction
                     /\ exams'[i].model_confidence = exams[i].model_confidence
                     /\ exams'[i].is_used_for_training = exams[i].is_used_for_training
                ELSE exams'[i] = exams[i]]_vars

\* the examination 2, which the store held diagnosed 0 on day 1 and marked trained,
\* was given the diagnosis 1 on day 2 and is still marked trained, next to an
\* examination that is still pending
RediagnosedTrainedRecord ==
    /\ last.op = "diagnose"
    /\ last.status = 200
    /\ last.id = 2
    /\ exams[2].doctor_diagnosis = Some(1)
    /\ exams[2].diagnosis_date = Some(2)
    /\ exams[2].is_used_for_training
    /\ exams[1].doctor_diagnosis = None

(***************************************************************************)
(* Properties of the patient store.                                        *)
(***************************************************************************)
\* C30: in every state of the patient store no two patients hold the same id,
\* whatever create_patient and delete_patient requests were served within the year.
PatientIdsAreUnique ==
    \A i, j \in 1..Len(patients) : i # j => patients[i] # patients[j]

(***************************************************************************)
(* Properties of two processes writing the examination file at once.       *)
(***************************************************************************)
\* what the function a process called makes of the file the process read
AloneOn(wr) ==
    IF wr.op = "create" THEN create_examination(wr.exists, wr.df, RaceExamData)
    ELSE IF wr.op = "update"
    THEN update_diagnosis(wr.exists, wr.df, wr.id, wr.diagnosis[1], wr.today[1]).df
    ELSE mark_as_trained(wr.exists, wr.df, wr.ids).df

\* C25: when a process has written the examination file after the other process
\* wrote it, having read it before, the file is what the later writer alone made of
\* the file it read and the earlier write is lost: a row the earlier writer appended
\* is not in the file, and two creates have returned the same id for one row.
LaterWriteDiscardsTheEarlier ==
    \A w \in Writers :
        LET me == writers[w]
            other == writers[3 - w]
        IN  (me.pc = "done" /\ me.wrote /\ me.stale) =>
                /\ other.pc = "done" /\ other.wrote
                /\ exams = AloneOn(me)
                /\ other.op = "create" =>
                      /\ Len(exams) = Len(other.df) + (IF me.op = "create" THEN 1 ELSE 0)
                      /\ me.op = "create" =>
                            /\ me.ret = other.ret
                            /\ Len(exams) = Len(me.df) + 1

\* two creates that both read the one-row file before either wrote have both
\* returned the id 2, and the file holds two rows, not three
TwoCreatesOneRow ==
    /\ \A w \in Writers : writers[w].pc = "done" /\ writers[w].op = "create"
                          /\ writers[w].df = StoreOfOne /\ writers[w].ret = 2
    /\ \E w \in Writers : writers[w].stale
    /\ Len(exams) = 2

====
